---------------------------- MODULE Spec2Model ----------------------------
(***************************************************************************)
(* Model of src/lambda/handler.py: the Lambda handler that validates the   *)
(* requested contentType, derives an object key and asks S3 for a          *)
(* pre-signed PUT URL.                                                     *)
(*                                                                         *)
(* Python strings are sequences of one-character strings, so that          *)
(* startswith, split, slicing, json.loads and json.dumps are computed and  *)
(* not assumed.  JSON values are tagged records of one shape.              *)
(***************************************************************************)
EXTENDS Integers, Sequences, FiniteSets, TLC

(***************************************************************************)
(* Strings                                                                 *)
(***************************************************************************)
Min(a, b) == IF a < b THEN a ELSE b

\* s[idx:idx+1] with a 0-based index: "" past the end
CharAt(s, idx) == IF idx >= 0 /\ idx < Len(s) THEN s[idx + 1] ELSE ""

\* s[:k]
Take(s, k) == SubSeq(s, 1, Min(k, Len(s)))

\* str.startswith
startswith(s, prefix) ==
    /\ Len(s) >= Len(prefix)
    /\ SubSeq(s, 1, Len(prefix)) = prefix

\* str.split(sep)[-1] for a one-character sep: the text after the last sep
RECURSIVE SplitLast(_, _, _)
SplitLast(s, sep, acc) ==
    IF s = <<>> THEN acc
    ELSE IF Head(s) = sep THEN SplitLast(Tail(s), sep, <<>>)
    ELSE SplitLast(Tail(s), sep, Append(acc, Head(s)))

\* sep.join(parts)
RECURSIVE join(_, _)
join(sep, parts) ==
    IF parts = <<>> THEN <<>>
    ELSE IF Len(parts) = 1 THEN parts[1]
    ELSE parts[1] \o sep \o join(sep, Tail(parts))

DigitChars == <<"0", "1", "2", "3", "4", "5", "6", "7", "8", "9">>

IsDigit(c) == \E d \in 1..10 : DigitChars[d] = c

DigitVal(c) == (CHOOSE d \in 1..10 : DigitChars[d] = c) - 1

\* str(n) for an int, as the f-string formats it
RECURSIVE IntToStr(_)
IntToStr(n) ==
    IF n < 0 THEN <<"-">> \o IntToStr(0 - n)
    ELSE IF n < 10 THEN <<DigitChars[n + 1]>>
    ELSE IntToStr(n \div 10) \o <<DigitChars[(n % 10) + 1]>>

(***************************************************************************)
(* JSON values                                                             *)
(***************************************************************************)
JNull == [t |-> "null", s |-> <<>>, n |-> 0, m |-> <<>>]
JBool(b) == [t |-> "bool", s |-> <<>>, n |-> IF b THEN 1 ELSE 0, m |-> <<>>]
JNum(k) == [t |-> "int", s |-> <<>>, n |-> k, m |-> <<>>]
JStr(chars) == [t |-> "str", s |-> chars, n |-> 0, m |-> <<>>]
JArr(items) == [t |-> "list", s |-> <<>>, n |-> 0, m |-> items]
JObj(members) == [t |-> "dict", s |-> <<>>, n |-> 0, m |-> members]

\* one member of a dict (k is the key) or one item of a list (k is empty)
Entry(k, v) == [k |-> k, v |-> v]

\* type(v).__name__, as Python's error messages print it
PyTypeName(v) ==
    CASE v.t = "null" -> <<"N","o","n","e","T","y","p","e">>
      [] v.t = "bool" -> <<"b","o","o","l">>
      [] v.t = "int" -> <<"i","n","t">>
      [] v.t = "str" -> <<"s","t","r">>
      [] v.t = "list" -> <<"l","i","s","t">>
      [] v.t = "dict" -> <<"d","i","c","t">>

\* dict.get(key, default): a repeated key keeps its last value
RECURSIVE dict_get(_, _, _)
dict_get(members, key, default) ==
    IF members = <<>> THEN default
    ELSE LET last == members[Len(members)]
         IN  IF last.k = key THEN last.v
             ELSE dict_get(SubSeq(members, 1, Len(members) - 1), key, default)

(***************************************************************************)
(* json.loads                                                              *)
(***************************************************************************)
Ok(v, end) == [ok |-> TRUE, v |-> v, i |-> end, err |-> <<>>]
Err(msg, pos) == [ok |-> FALSE, v |-> JNull, i |-> pos, err |-> msg]

IsWs(c) == c \in {" ", "\t", "\n", "\r"}

RECURSIVE SkipWs(_, _)
SkipWs(s, idx) == IF IsWs(CharAt(s, idx)) THEN SkipWs(s, idx + 1) ELSE idx

\* json.decoder.BACKSLASH without the \b and \f entries
BACKSLASH ==
    ("\"" :> "\"") @@ ("\\" :> "\\") @@ ("/" :> "/") @@
    ("n" :> "\n") @@ ("r" :> "\r") @@ ("t" :> "\t")

\* the characters that end a chunk of json.decoder.STRINGCHUNK: (.*?)(["\\\x00-\x1f])
EndsChunk(c) == c \in {"\"", "\\", "\t", "\n", "\r"}

\* F applied to the value of e, which is computed once
Bind(e, F(_)) == CHOOSE y \in {F(x) : x \in {e}} : TRUE

\* the index of the first chunk terminator at or after idx, Len(s) when there is none
ChunkEnd(s, idx) ==
    Bind({k \in idx..(Len(s) - 1) : EndsChunk(s[k + 1])}, LAMBDA ends :
        IF ends = {} THEN Len(s)
        ELSE CHOOSE k \in ends : \A j \in ends : k <= j)

\* json.decoder.scanstring, strict: begin is the index of the opening quote
RECURSIVE scanstring(_, _, _, _)
scanstring(s, begin, idx, acc) ==
    Bind(ChunkEnd(s, idx), LAMBDA end :
    Bind(acc \o SubSeq(s, idx + 1, end), LAMBDA chunks :
    Bind(CharAt(s, end), LAMBDA c :
        IF c = "" THEN Err(<<"U","n","t","e","r","m","i","n","a","t","e","d"," ","s","t","r","i","n","g"," ","s","t","a","r","t","i","n","g"," ","a","t">>, begin)
        ELSE IF c = "\"" THEN Ok(JStr(chunks), end + 1)
        ELSE IF c # "\\" THEN Err(<<"I","n","v","a","l","i","d"," ","c","o","n","t","r","o","l"," ","c","h","a","r","a","c","t","e","r"," ","a","t">>, end)
        ELSE Bind(CharAt(s, end + 1), LAMBDA esc :
            IF esc = "" THEN Err(<<"U","n","t","e","r","m","i","n","a","t","e","d"," ","s","t","r","i","n","g"," ","s","t","a","r","t","i","n","g"," ","a","t">>, begin)
            ELSE IF esc \in DOMAIN BACKSLASH
                 THEN scanstring(s, begin, end + 2, Append(chunks, BACKSLASH[esc]))
                 ELSE Err(<<"I","n","v","a","l","i","d"," ","\\","e","s","c","a","p","e">>, end)))))

\* the integer part of json.scanner.NUMBER_RE: -?(0|[1-9]\d*)
RECURSIVE ScanDigits(_, _, _)
ScanDigits(s, idx, val) ==
    IF IsDigit(CharAt(s, idx))
    THEN ScanDigits(s, idx + 1, val * 10 + DigitVal(CharAt(s, idx)))
    ELSE [v |-> val, i |-> idx]

ScanNumber(s, idx) ==
    Bind(CharAt(s, idx) = "-", LAMBDA neg :
    Bind(IF neg THEN idx + 1 ELSE idx, LAMBDA start :
    Bind(CharAt(s, start), LAMBDA first :
        IF ~IsDigit(first) THEN Err(<<"E","x","p","e","c","t","i","n","g"," ","v","a","l","u","e">>, idx)
        ELSE IF first = "0" THEN Ok(JNum(0), start + 1)
        ELSE Bind(ScanDigits(s, start, 0), LAMBDA d :
                 Ok(JNum(IF neg THEN 0 - d.v ELSE d.v), d.i)))))

RECURSIVE scan_once(_, _)
RECURSIVE JSONObject(_, _, _)
RECURSIVE JSONArray(_, _, _)

\* json.scanner.py_make_scanner._scan_once
scan_once(s, idx) ==
    Bind(CharAt(s, idx), LAMBDA c :
    CASE c = "\"" -> scanstring(s, idx, idx + 1, <<>>)
      [] c = "{" ->
            Bind(IF CharAt(s, idx + 1) # "\"" THEN SkipWs(s, idx + 1) ELSE idx + 1,
                 LAMBDA e1 :
                IF CharAt(s, e1) = "}" THEN Ok(JObj(<<>>), e1 + 1)
                ELSE IF CharAt(s, e1) # "\""
                THEN Err(<<"E","x","p","e","c","t","i","n","g"," ","p","r","o","p","e","r","t","y"," ","n","a","m","e"," ","e","n","c","l","o","s","e","d"," ","i","n"," ","d","o","u","b","l","e"," ","q","u","o","t","e","s">>, e1)
                ELSE JSONObject(s, e1 + 1, <<>>))
      [] c = "[" ->
            Bind(SkipWs(s, idx + 1), LAMBDA e1 :
                IF CharAt(s, e1) = "]" THEN Ok(JArr(<<>>), e1 + 1)
                ELSE JSONArray(s, e1, <<>>))
      [] c = "n" /\ SubSeq(s, idx + 1, Min(idx + 4, Len(s))) = <<"n","u","l","l">> ->
            Ok(JNull, idx + 4)
      [] c = "t" /\ SubSeq(s, idx + 1, Min(idx + 4, Len(s))) = <<"t","r","u","e">> ->
            Ok(JBool(TRUE), idx + 4)
      [] c = "f" /\ SubSeq(s, idx + 1, Min(idx + 5, Len(s))) = <<"f","a","l","s","e">> ->
            Ok(JBool(FALSE), idx + 5)
      [] OTHER -> ScanNumber(s, idx))

\* json.decoder.JSONObject from the first key on: idx is just past its opening quote
JSONObject(s, idx, members) ==
    Bind(scanstring(s, idx - 1, idx, <<>>), LAMBDA key :
    IF ~key.ok THEN key
    ELSE
    Bind(IF CharAt(s, key.i) # ":" THEN SkipWs(s, key.i) ELSE key.i, LAMBDA c0 :
    IF CharAt(s, c0) # ":" THEN Err(<<"E","x","p","e","c","t","i","n","g"," ","'",":","'"," ","d","e","l","i","m","i","t","e","r">>, c0)
    ELSE
    Bind(scan_once(s, SkipWs(s, c0 + 1)), LAMBDA val :
    IF ~val.ok THEN val
    ELSE
    Bind(Append(members, Entry(key.v.s, val.v)), LAMBDA pairs :
    Bind(SkipWs(s, val.i), LAMBDA e2 :
    Bind(CharAt(s, e2), LAMBDA nextchar :
        IF nextchar = "}" THEN Ok(JObj(pairs), e2 + 1)
        ELSE IF nextchar # "," THEN Err(<<"E","x","p","e","c","t","i","n","g"," ","'",",","'"," ","d","e","l","i","m","i","t","e","r">>, e2)
        ELSE Bind(SkipWs(s, e2 + 1), LAMBDA e3 :
                 IF CharAt(s, e3) # "\""
                 THEN Err(<<"E","x","p","e","c","t","i","n","g"," ","p","r","o","p","e","r","t","y"," ","n","a","m","e"," ","e","n","c","l","o","s","e","d"," ","i","n"," ","d","o","u","b","l","e"," ","q","u","o","t","e","s">>, e3)
                 ELSE JSONObject(s, e3 + 1, pairs))))))))

\* json.decoder.JSONArray from the first item on
JSONArray(s, idx, items) ==
    Bind(scan_once(s, idx), LAMBDA val :
    IF ~val.ok THEN val
    ELSE
    Bind(Append(items, Entry(<<>>, val.v)), LAMBDA got :
    Bind(SkipWs(s, val.i), LAMBDA e2 :
    Bind(CharAt(s, e2), LAMBDA nextchar :
        IF nextchar = "]" THEN Ok(JArr(got), e2 + 1)
        ELSE IF nextchar # "," THEN Err(<<"E","x","p","e","c","t","i","n","g"," ","'",",","'"," ","d","e","l","i","m","i","t","e","r">>, e2)
        ELSE Bind(SkipWs(s, e2 + 1), LAMBDA e3 : JSONArray(s, e3, got))))))

\* s.count('\n', 0, pos)
CountNewlines(s, pos) == Cardinality({k \in 0..(pos - 1) : CharAt(s, k) = "\n"})

\* s.rindex('\n', 0, pos), -1 when there is none
LastNewline(s, pos) ==
    LET at == {k \in 0..(pos - 1) : CharAt(s, k) = "\n"}
    IN  IF at = {} THEN -1 ELSE CHOOSE k \in at : \A j \in at : j <= k

\* JSONDecodeError's message: "<msg>: line L column C (char P)"
JSONDecodeErrorMsg(msg, s, pos) ==
    msg \o <<":"," ","l","i","n","e"," ">> \o IntToStr(CountNewlines(s, pos) + 1)
        \o <<" ","c","o","l","u","m","n"," ">> \o IntToStr(pos - LastNewline(s, pos))
        \o <<" ","(","c","h","a","r"," ">> \o IntToStr(pos) \o <<")">>

\* json.loads(s) for a str s: [ok, v] or [~ok, err]
json_loads(s) ==
    Bind(scan_once(s, SkipWs(s, 0)), LAMBDA r :
    IF ~r.ok THEN [ok |-> FALSE, v |-> JNull, err |-> JSONDecodeErrorMsg(r.err, s, r.i)]
    ELSE Bind(SkipWs(s, r.i), LAMBDA end :
             IF end # Len(s)
             THEN [ok |-> FALSE, v |-> JNull,
                   err |-> JSONDecodeErrorMsg(<<"E","x","t","r","a"," ","d","a","t","a">>, s, end)]
             ELSE [ok |-> TRUE, v |-> r.v, err |-> <<>>]))

(***************************************************************************)
(* json.dumps of a dict of str to str (ensure_ascii, default separators)   *)
(***************************************************************************)
\* json.encoder.ESCAPE_DCT for the characters of the model's alphabet
EscapeChar(c) ==
    CASE c = "\"" -> <<"\\", "\"">>
      [] c = "\\" -> <<"\\", "\\">>
      [] c = "\n" -> <<"\\", "n">>
      [] c = "\r" -> <<"\\", "r">>
      [] c = "\t" -> <<"\\", "t">>
      [] OTHER -> <<c>>

\* the escaped characters of s, one after the other
EscapeStr[s \in Seq(STRING)] ==
    IF Len(s) = 0 THEN <<>>
    ELSE IF Len(s) = 1 THEN EscapeChar(s[1])
    ELSE EscapeStr[SubSeq(s, 1, Len(s) \div 2)]
             \o EscapeStr[SubSeq(s, (Len(s) \div 2) + 1, Len(s))]

encode_str(s) == <<"\"">> \o EscapeStr[s] \o <<"\"">>

json_dumps(pairs) ==
    <<"{">>
    \o join(<<","," ">>,
            [k \in 1..Len(pairs) |->
                encode_str(pairs[k][1]) \o <<":"," ">> \o encode_str(pairs[k][2])])
    \o <<"}">>

(***************************************************************************)
(* Bounds and inputs                                                       *)
(***************************************************************************)
\* invocations of the handler in one run of the model
MaxInvocations == 2
\* seconds the clock may advance between two readings
MaxTicks == 1
\* time.time() when the model starts
StartTime == 1699999999

PyNone == [t |-> "NoneType", s |-> <<>>]
PyStr(chars) == [t |-> "str", s |-> chars]

\* a handler that defaulted to event.get('body', '')
DefaultBodyEmptyString == <<>>

\* the default of event.get('body', '{}')
DefaultBody == <<"{","}">>

\* request bodies the trigger may deliver
Bodies == {
    <<"{","}">>,
    <<"{","\"","c","o","n","t","e","n","t","T","y","p","e","\"",":","\"","i","m","a","g","e","/","p","n","g","\"","}">>,
    <<"{","\"","c","o","n","t","e","n","t","T","y","p","e","\"",":"," ","\"","i","m","a","g","e","/","j","p","e","g","\"",","," ","\"","f","i","l","e","N","a","m","e","\"",":"," ","\"","c","a","t",".","j","p","g","\"","}">>,
    <<"{","\"","c","o","n","t","e","n","t","T","y","p","e","\"",":","\"","i","m","a","g","e","/","g","i","f","\"","}">>,
    <<"{","\"","c","o","n","t","e","n","t","T","y","p","e","\"",":","\"","i","m","a","g","e","/","w","e","b","p","\"","}">>,
    <<"{","\"","c","o","n","t","e","n","t","T","y","p","e","\"",":","\"","i","m","a","g","e","/","p","n","g","\"",",","\"","c","o","n","t","e","n","t","T","y","p","e","\"",":","\"","t","e","x","t","/","p","l","a","i","n","\"","}">>,
    <<"{","\"","c","o","n","t","e","n","t","T","y","p","e","\"",":","\"","i","m","a","g","e","/","a","\\","\"","b","\"","}">>,
    <<"{","\"","c","o","n","t","e","n","t","T","y","p","e","\"",":","\"","i","m","a","g","e","\"","}">>,
    <<"{","\"","c","o","n","t","e","n","t","T","y","p","e","\"",":","5","}">>,
    <<"{","\"","c","o","n","t","e","n","t","T","y","p","e","\"",":","n","u","l","l","}">>,
    <<"{","\"","c","o","n","t","e","n","t","T","y","p","e","\"",":","[","\"","i","m","a","g","e","/","p","n","g","\"","]","}">>,
    <<"[","]">>,
    <<"n","u","l","l">>,
    <<"n","o","t"," ","j","s","o","n">>,
    <<>>,
    <<"{","\"","c","o","n","t","e","n","t","T","y","p","e","\"",":","\"","i","m","a","g","e","/","p","n","g","\"">> }

\* events: no 'body' key, 'body': None, 'body': <str>
Events ==
    {[has_body |-> FALSE, body |-> PyNone], [has_body |-> TRUE, body |-> PyNone]}
    \cup {[has_body |-> TRUE, body |-> PyStr(b)] : b \in Bodies}

\* values str(uuid.uuid4()) may take; the first two share their first six characters
UUIDs == {
    <<"3","f","2","a","9","c","1","e","-","7","b","4","d","-","4","e","8","a","-","9","c","2","f","-","1","a","2","b","3","c","4","d","5","e","6","f">>,
    <<"3","f","2","a","9","c","7","7","-","0","b","1","d","-","4","a","6","a","-","8","c","2","f","-","f","f","e","e","d","d","c","c","b","b","a","a">>,
    <<"b","0","7","e","1","d","5","2","-","6","3","c","9","-","4","f","0","e","-","a","1","b","8","-","0","c","9","d","8","e","7","f","6","a","5","b">> }

\* outcomes of s3_client.generate_presigned_url
BackendOutcomes == {
    [ok |-> TRUE, url |-> <<"h","t","t","p","s",":","/","/","s","3",".","t","e","s","t","/","o","?","X","-","A","m","z","-","S","i","g","n","a","t","u","r","e","=","1","f">>, cls |-> "", msg |-> <<>>],
    [ok |-> TRUE, url |-> <<"h","t","t","p","s",":","/","/","s","3",".","t","e","s","t","/","o","?","X","-","A","m","z","-","S","i","g","n","a","t","u","r","e","=","2","e">>, cls |-> "", msg |-> <<>>],
    [ok |-> FALSE, url |-> <<>>, cls |-> "NoCredentialsError",
     msg |-> <<"U","n","a","b","l","e"," ","t","o"," ","l","o","c","a","t","e"," ","c","r","e","d","e","n","t","i","a","l","s">>] }

\* process environments: BUCKET_NAME and SIGNED_URL_EXPIRE (unset, or a decimal string)
Environments == {
    [BUCKET_NAME |-> "uploads-prod", has_expire |-> FALSE, SIGNED_URL_EXPIRE |-> <<>>],
    [BUCKET_NAME |-> "uploads-dev", has_expire |-> TRUE, SIGNED_URL_EXPIRE |-> <<"6","0">>] }

(***************************************************************************)
(* Module-level configuration (handler.py lines 12-13)                     *)
(***************************************************************************)
DefaultExpire == 120

\* int(<decimal str>)
RECURSIVE StrToInt(_)
StrToInt(s) ==
    IF s = <<>> THEN 0
    ELSE StrToInt(SubSeq(s, 1, Len(s) - 1)) * 10 + DigitVal(s[Len(s)])

ReadBucketName(env) == env.BUCKET_NAME

\* a module that ignored SIGNED_URL_EXPIRE
ReadExpireSecondsDefaultOnly(env) == DefaultExpire

ReadExpireSeconds(env) ==
    IF env.has_expire THEN StrToInt(env.SIGNED_URL_EXPIRE) ELSE DefaultExpire

(***************************************************************************)
(* Handler constants                                                       *)
(***************************************************************************)
\* a handler that tested startswith('image')
ImagePrefixNoSlash == <<"i","m","a","g","e">>

ImagePrefix == <<"i","m","a","g","e","/">>

allowed_types == { <<"i","m","a","g","e","/","j","p","e","g">>, <<"i","m","a","g","e","/","p","n","g">>, <<"i","m","a","g","e","/","g","i","f">>, <<"i","m","a","g","e","/","w","e","b","p">> }

\* the orders in which iterating the set allowed_types may yield its members
IterationOrders(S) ==
    {o \in [1..Cardinality(S) -> S] : \A a, b \in 1..Cardinality(S) : a # b => o[a] # o[b]}

AllowedOrders == IterationOrders(allowed_types)

SuffixLen == 6

InvalidContentTypeMsg == <<"I","n","v","a","l","i","d"," ","c","o","n","t","e","n","t","T","y","p","e","."," ","M","u","s","t"," ","s","t","a","r","t"," ","w","i","t","h"," ","\"","i","m","a","g","e","/","\"",".">>

\* a handler whose message left out the rejected type
UnsupportedMsgWithoutType(content_type, order) ==
    <<"U","n","s","u","p","p","o","r","t","e","d"," ","i","m","a","g","e"," ","t","y","p","e","."," ","A","l","l","o","w","e","d",":"," ">> \o join(<<","," ">>, order)

UnsupportedMsg(content_type, order) ==
    <<"U","n","s","u","p","p","o","r","t","e","d"," ","i","m","a","g","e"," ","t","y","p","e",":"," ">> \o content_type \o <<"."," ","A","l","l","o","w","e","d",":"," ">> \o join(<<","," ">>, order)

InternalErrorMsg == <<"I","n","t","e","r","n","a","l"," ","s","e","r","v","e","r"," ","e","r","r","o","r","."," ","F","a","i","l","e","d"," ","t","o"," ","g","e","n","e","r","a","t","e"," ","u","p","l","o","a","d"," ","U","R","L",".">>

\* a handler that returned str(e) to the caller
ErrorMessageWithDetail(e) == InternalErrorMsg \o <<" ">> \o e.msg

\* the 'error' text of the 500 response for exception e
ErrorMessage(e) == InternalErrorMsg


\* a handler that left the extension out of the key
ObjectKeyNoExt(timestamp, random_suffix, ext) ==
    <<"u","p","l","o","a","d","s","/">> \o IntToStr(timestamp) \o <<"-">> \o random_suffix

\* a handler that left the random suffix out of the key
ObjectKeyNoSuffix(timestamp, random_suffix, ext) ==
    <<"u","p","l","o","a","d","s","/">> \o IntToStr(timestamp) \o <<".">> \o ext

ObjectKey(timestamp, random_suffix, ext) ==
    <<"u","p","l","o","a","d","s","/">> \o IntToStr(timestamp) \o <<"-">> \o random_suffix \o <<".">> \o ext

LogLine(e) == <<"E","r","r","o","r"," ","g","e","n","e","r","a","t","i","n","g"," ","p","r","e","s","i","g","n","e","d"," ","U","R","L",":"," ">> \o e.msg

\* the headers literal of each return statement
HeadersInvalidPrefix ==
    ("Access-Control-Allow-Origin" :> "*") @@ ("Access-Control-Allow-Headers" :> "Content-Type")

HeadersUnsupported ==
    ("Access-Control-Allow-Origin" :> "*") @@ ("Access-Control-Allow-Headers" :> "Content-Type")

HeadersOk ==
    ("Access-Control-Allow-Origin" :> "*") @@ ("Access-Control-Allow-Headers" :> "Content-Type")

\* an except branch that forgot the CORS headers
HeadersErrorNoCors == ("Content-Type" :> "application/json")

HeadersError ==
    ("Access-Control-Allow-Origin" :> "*") @@ ("Access-Control-Allow-Headers" :> "Content-Type")

Response(status, headers, body) ==
    [statusCode |-> status, headers |-> headers, body |-> body]

NoResponse == [statusCode |-> 0, headers |-> <<>>, body |-> <<>>]

NoException == [cls |-> "", msg |-> <<>>]

Exception(cls, msg) == [cls |-> cls, msg |-> msg]

\* the classes `except Exception` catches, among those Python can raise here
ExceptionSubclasses ==
    {"JSONDecodeError", "TypeError", "AttributeError", "ClientError", "NoCredentialsError"}

\* a handler with `except ClientError as e`
CatchesClientErrorOnly(cls) == cls = "ClientError"

\* except Exception as e
Catches(cls) == cls \in ExceptionSubclasses

\* a handler that called the backend again when it raised
AfterRaiseRetrySign(cls) ==
    IF cls \in {"ClientError", "NoCredentialsError"} THEN "sign"
    ELSE IF cls \in ExceptionSubclasses THEN "except" ELSE "fault"

\* where control goes when a statement of the try block raises
AfterRaise(cls) == IF Catches(cls) THEN "except" ELSE "fault"

NoAttributeMsg(v, attr) ==
    <<"'">> \o PyTypeName(v) \o <<"'"," ","o","b","j","e","c","t"," ","h","a","s"," ","n","o"," ","a","t","t","r","i","b","u","t","e"," ","'">> \o attr \o <<"'">>

LoadsTypeErrorMsg == <<"t","h","e"," ","J","S","O","N"," ","o","b","j","e","c","t"," ","m","u","s","t"," ","b","e"," ","s","t","r",","," ","b","y","t","e","s"," ","o","r"," ","b","y","t","e","a","r","r","a","y",","," ","n","o","t"," ","N","o","n","e","T","y","p","e">>

(***************************************************************************)
(* State                                                                   *)
(***************************************************************************)
VARIABLES
    environ,         \* os.environ of the process
    BUCKET_NAME,     \* module global
    EXPIRE_SECONDS,  \* module global
    now,             \* the last reading of int(time.time())
    pc,              \* position of the invocation in lambda_handler
    invocations,     \* invocations started so far
    event,           \* argument of the invocation
    body, content_type, file_name,
    timestamp, random_suffix, ext, object_key,
    presigned_url,
    exc,             \* the exception being handled
    sign_calls,      \* calls of generate_presigned_url made by this invocation
    log,             \* lines printed by this invocation
    response,        \* value returned by this invocation
    issued           \* the 200 results returned so far, in order

locals == <<body, content_type, file_name, timestamp, random_suffix, ext,
            object_key, presigned_url, exc>>

config == <<environ, BUCKET_NAME, EXPIRE_SECONDS>>

vars == <<environ, BUCKET_NAME, EXPIRE_SECONDS, now, pc, invocations, event, body,
          content_type, file_name, timestamp, random_suffix, ext, object_key,
          presigned_url, exc, sign_calls, log, response, issued>>

NoEvent == [has_body |-> FALSE, body |-> PyNone]

Init ==
    /\ environ \in Environments
    /\ BUCKET_NAME = ReadBucketName(environ)
    /\ EXPIRE_SECONDS = ReadExpireSeconds(environ)
    /\ now = StartTime
    /\ pc = "idle"
    /\ invocations = 0
    /\ event = NoEvent
    /\ body = JNull
    /\ content_type = JNull
    /\ file_name = JNull
    /\ timestamp = 0
    /\ random_suffix = <<>>
    /\ ext = <<>>
    /\ object_key = <<>>
    /\ presigned_url = <<>>
    /\ exc = NoException
    /\ sign_calls = <<>>
    /\ log = <<>>
    /\ response = NoResponse
    /\ issued = <<>>

(***************************************************************************)
(* The invocation runtime                                                  *)
(***************************************************************************)
\* the runtime calls lambda_handler(event, context)
Invoke ==
    /\ pc \in {"idle", "done", "fault"}
    /\ invocations < MaxInvocations
    /\ \E ev \in Events : event' = ev
    /\ invocations' = invocations + 1
    /\ pc' = "parse"
    /\ body' = JNull
    /\ content_type' = JNull
    /\ file_name' = JNull
    /\ timestamp' = 0
    /\ random_suffix' = <<>>
    /\ ext' = <<>>
    /\ object_key' = <<>>
    /\ presigned_url' = <<>>
    /\ exc' = NoException
    /\ sign_calls' = <<>>
    /\ log' = <<>>
    /\ response' = NoResponse
    /\ UNCHANGED <<config, now, issued>>

(***************************************************************************)
(* lambda_handler                                                          *)
(***************************************************************************)
\* lines 23-25: parse the body, read contentType and fileName
Parse ==
    /\ pc = "parse"
    /\ \E raw \in {IF event.has_body THEN event.body ELSE PyStr(DefaultBody)} :
          IF raw.t # "str"
          THEN /\ exc' = Exception("TypeError", LoadsTypeErrorMsg)
               /\ pc' = AfterRaise("TypeError")
               /\ UNCHANGED <<body, content_type, file_name>>
          ELSE \E r \in {json_loads(raw.s)} :
               IF ~r.ok
               THEN /\ exc' = Exception("JSONDecodeError", r.err)
                    /\ pc' = AfterRaise("JSONDecodeError")
                    /\ UNCHANGED <<body, content_type, file_name>>
               ELSE IF r.v.t # "dict"
               THEN /\ body' = r.v
                    /\ exc' = Exception("AttributeError", NoAttributeMsg(r.v, <<"g","e","t">>))
                    /\ pc' = AfterRaise("AttributeError")
                    /\ UNCHANGED <<content_type, file_name>>
               ELSE /\ body' = r.v
                    /\ content_type' = dict_get(r.v.m, <<"c","o","n","t","e","n","t","T","y","p","e">>, JStr(<<>>))
                    /\ file_name' = dict_get(r.v.m, <<"f","i","l","e","N","a","m","e">>, JStr(<<>>))
                    /\ pc' = "check_prefix"
                    /\ UNCHANGED exc
    /\ UNCHANGED <<config, now, invocations, event, timestamp, random_suffix, ext,
                   object_key, presigned_url, sign_calls, log, response, issued>>

\* lines 28-38: contentType must start with 'image/'
CheckPrefix ==
    /\ pc = "check_prefix"
    /\ IF content_type.t # "str"
       THEN /\ exc' = Exception("AttributeError", NoAttributeMsg(content_type, <<"s","t","a","r","t","s","w","i","t","h">>))
            /\ pc' = AfterRaise("AttributeError")
            /\ UNCHANGED response
       ELSE IF ~startswith(content_type.s, ImagePrefix)
       THEN /\ response' = Response(400, HeadersInvalidPrefix,
                                    json_dumps(<< <<<<"e","r","r","o","r">>, InvalidContentTypeMsg>> >>))
            /\ pc' = "done"
            /\ UNCHANGED exc
       ELSE /\ pc' = "check_allowed"
            /\ UNCHANGED <<exc, response>>
    /\ UNCHANGED <<config, now, invocations, event, body, content_type, file_name,
                   timestamp, random_suffix, ext, object_key, presigned_url,
                   sign_calls, log, issued>>

\* lines 41-52: contentType must be one of allowed_types
CheckAllowed ==
    /\ pc = "check_allowed"
    /\ IF content_type.s \notin allowed_types
       THEN /\ \E order \in AllowedOrders :
                 response' = Response(400, HeadersUnsupported,
                     json_dumps(<< <<<<"e","r","r","o","r">>, UnsupportedMsg(content_type.s, order)>> >>))
            /\ pc' = "done"
       ELSE /\ pc' = "derive_key"
            /\ UNCHANGED response
    /\ UNCHANGED <<config, now, invocations, event, locals, sign_calls, log, issued>>

\* the readings time.time() may give after the reading last: the clock does not go back
ClockReadings(last) == last..(StartTime + MaxTicks)

\* lines 55-58: timestamp, random suffix, extension, object key
DeriveKey ==
    /\ pc = "derive_key"
    /\ \E t \in ClockReadings(now), u \in UUIDs :
          /\ now' = t
          /\ timestamp' = t
          /\ random_suffix' = Take(u, SuffixLen)
          /\ ext' = SplitLast(content_type.s, "/", <<>>)
          /\ object_key' = ObjectKey(timestamp', random_suffix', ext')
    /\ pc' = "sign"
    /\ UNCHANGED <<config, invocations, event, body, content_type, file_name,
                   presigned_url, exc, sign_calls, log, response, issued>>

\* the arguments of the call at lines 61-70
SignCall(key, ctype) ==
    [ClientMethod |-> "put_object", Bucket |-> BUCKET_NAME, Key |-> key,
     ContentType |-> ctype, ExpiresIn |-> EXPIRE_SECONDS, HttpMethod |-> "PUT"]

\* lines 61-70: s3_client.generate_presigned_url returns a URL or raises
Sign ==
    /\ pc = "sign"
    /\ sign_calls' = Append(sign_calls, SignCall(object_key, content_type.s))
    /\ \E out \in BackendOutcomes :
          IF out.ok
          THEN /\ presigned_url' = out.url
               /\ pc' = "return_ok"
               /\ UNCHANGED exc
          ELSE /\ exc' = Exception(out.cls, out.msg)
               /\ pc' = AfterRaise(out.cls)
               /\ UNCHANGED presigned_url
    /\ UNCHANGED <<config, now, invocations, event, body, content_type, file_name,
                   timestamp, random_suffix, ext, object_key, log, response, issued>>

\* lines 73-83: return the signed URL and the object key
ReturnOk ==
    /\ pc = "return_ok"
    /\ response' = Response(200, HeadersOk,
                            json_dumps(<< <<<<"u","r","l">>, presigned_url>>, <<<<"k","e","y">>, object_key>> >>))
    /\ issued' = Append(issued, [key |-> object_key, timestamp |-> timestamp,
                                 random_suffix |-> random_suffix,
                                 content_type |-> content_type.s])
    /\ pc' = "done"
    /\ UNCHANGED <<config, now, invocations, event, locals, sign_calls, log>>

\* lines 85-97: log the exception, return the generic 500
Except ==
    /\ pc = "except"
    /\ log' = Append(log, LogLine(exc))
    /\ response' = Response(500, HeadersError, json_dumps(<< <<<<"e","r","r","o","r">>, ErrorMessage(exc)>> >>))
    /\ pc' = "done"
    /\ UNCHANGED <<config, now, invocations, event, locals, sign_calls, issued>>

HandlerStep == Parse \/ CheckPrefix \/ CheckAllowed \/ DeriveKey \/ Sign \/ ReturnOk \/ Except

Next == Invoke \/ Parse \/ CheckPrefix \/ CheckAllowed \/ DeriveKey \/ Sign \/ ReturnOk \/ Except

Spec == Init /\ [][Next]_vars

\* the runtime runs a started invocation to its end
LiveSpec == Init /\ [][Next]_vars /\ WF_vars(HandlerStep)

(***************************************************************************)
(* What a caller sees                                                      *)
(***************************************************************************)
\* needle occurs in haystack
Contains(haystack, needle) ==
    \E k \in 0..(Len(haystack) - Len(needle)) :
        SubSeq(haystack, k + 1, k + Len(needle)) = needle

\* the invocation has returned its response
Returned == pc = "done"

\* the response body read back as JSON: [ok, v, err]
Decoded(resp) == json_loads(resp.body)

\* whether the JSON value v is an object with a member named key
HasKey(v, key) == v.t = "dict" /\ \E k \in 1..Len(v.m) : v.m[k].k = key

\* the value of member key of the object v: the last member of that name
ValueOf(v, key) ==
    LET last == CHOOSE k \in 1..Len(v.m) :
                    /\ v.m[k].k = key
                    /\ \A j \in 1..Len(v.m) : v.m[j].k = key => j <= k
    IN  v.m[last].v

\* the member names of the object v
KeysOf(v) == {v.m[k].k : k \in 1..Len(v.m)}

\* dec is a JSON object {error: <a string>}
IsErrorBody(dec) ==
    /\ dec.ok
    /\ dec.v.t = "dict"
    /\ KeysOf(dec.v) = {<<"e","r","r","o","r">>}
    /\ ValueOf(dec.v, <<"e","r","r","o","r">>).t = "str"

ErrorText(dec) == ValueOf(dec.v, <<"e","r","r","o","r">>).s

\* the event carries a str body
BodyIsStr == event.has_body /\ event.body.t = "str"

\* the event's body read as JSON, [ok, v, err]; it means something when BodyIsStr
Request == json_loads(event.body.s)

\* properties of req, the value of Request
BodyParses(req) == BodyIsStr /\ req.ok

BodyIsObject(req) == BodyParses(req) /\ req.v.t = "dict"

ContentTypeAbsent(req) == BodyIsObject(req) /\ ~HasKey(req.v, <<"c","o","n","t","e","n","t","T","y","p","e">>)

ContentTypeGiven(req) == BodyIsObject(req) /\ HasKey(req.v, <<"c","o","n","t","e","n","t","T","y","p","e">>)

RequestedType(req) == ValueOf(req.v, <<"c","o","n","t","e","n","t","T","y","p","e">>)

ContentTypeIsStr(req) == ContentTypeGiven(req) /\ RequestedType(req).t = "str"

HasImagePrefix(s) == Len(s) >= 6 /\ SubSeq(s, 1, 6) = <<"i","m","a","g","e","/">>

FourTypes == { <<"i","m","a","g","e","/","j","p","e","g">>, <<"i","m","a","g","e","/","p","n","g">>, <<"i","m","a","g","e","/","g","i","f">>, <<"i","m","a","g","e","/","w","e","b","p">> }

\* the request names one of the four allowed types
RequestsAllowedType(req) == ContentTypeIsStr(req) /\ RequestedType(req).s \in FourTypes

Is400InvalidContentType(resp) ==
    /\ resp.statusCode = 400
    /\ \A dec \in {Decoded(resp)} :
          /\ IsErrorBody(dec)
          /\ ErrorText(dec) = <<"I","n","v","a","l","i","d"," ","c","o","n","t","e","n","t","T","y","p","e","."," ","M","u","s","t"," ","s","t","a","r","t"," ","w","i","t","h"," ","\"","i","m","a","g","e","/","\"",".">>

Is500Generic(resp) ==
    /\ resp.statusCode = 500
    /\ \A dec \in {Decoded(resp)} :
          /\ IsErrorBody(dec)
          /\ ErrorText(dec) = <<"I","n","t","e","r","n","a","l"," ","s","e","r","v","e","r"," ","e","r","r","o","r","."," ","F","a","i","l","e","d"," ","t","o"," ","g","e","n","e","r","a","t","e"," ","u","p","l","o","a","d"," ","U","R","L",".">>

C2_AnyValueWithoutPrefixIs400 ==
    Returned =>
        \A req \in {Request} :
            (\/ ContentTypeAbsent(req)
             \/ /\ ContentTypeGiven(req)
                /\ ~(ContentTypeIsStr(req) /\ HasImagePrefix(RequestedType(req).s)))
                => Is400InvalidContentType(response)

\* C2 amended: a request whose contentType is absent or is any string that does
\* not start with "image/" gets 400 with the invalid-contentType message, decided
\* before the allowed-set check (which only a string with the prefix reaches); a
\* contentType that is not a string gets 500 with the generic message.
C2_StringWithoutPrefixIs400 ==
    (pc \in {"done", "check_allowed", "derive_key", "sign", "return_ok"}) =>
        \A req \in {Request} :
            /\ (/\ Returned
                /\ \/ ContentTypeAbsent(req)
                   \/ ContentTypeIsStr(req) /\ ~HasImagePrefix(RequestedType(req).s))
                  => /\ Is400InvalidContentType(response)
                     /\ sign_calls = <<>>
            /\ (Returned /\ ContentTypeGiven(req) /\ ~ContentTypeIsStr(req))
                  => Is500Generic(response)
            /\ pc # "done"
                  => ContentTypeIsStr(req) /\ HasImagePrefix(RequestedType(req).s)

\* a request with a string contentType without the prefix has been answered
C2_Witness ==
    /\ Returned
    /\ response.statusCode = 400
    /\ \E req \in {Request} :
          /\ ContentTypeIsStr(req)
          /\ RequestedType(req).s = <<"t","e","x","t","/","p","l","a","i","n">>

(***************************************************************************)
(* C3                                                                      *)
(***************************************************************************)
\* C3: a request whose contentType starts with "image/" but is none of the four
\* allowed types gets 400 with an error message that contains the rejected
\* contentType and names all four allowed types.
C3_UnsupportedTypeIs400 ==
    Returned =>
        \A req \in {Request} :
            (/\ ContentTypeIsStr(req)
             /\ HasImagePrefix(RequestedType(req).s)
             /\ RequestedType(req).s \notin FourTypes)
                => /\ response.statusCode = 400
                   /\ \A dec \in {Decoded(response)} :
                         /\ IsErrorBody(dec)
                         /\ Contains(ErrorText(dec), RequestedType(req).s)
                         /\ \A t \in FourTypes : Contains(ErrorText(dec), t)

\* the type image/a"b, which json.dumps has to escape, has been rejected
C3_Witness ==
    /\ Returned
    /\ response.statusCode = 400
    /\ \E req \in {Request} :
          /\ ContentTypeIsStr(req)
          /\ RequestedType(req).s = <<"i","m","a","g","e","/","a","\"","b">>

(***************************************************************************)
(* C4                                                                      *)
(***************************************************************************)
\* the text after the first "/" of ctype
ExtAfterSlash(ctype) ==
    LET slash == CHOOSE k \in 1..Len(ctype) :
                     ctype[k] = "/" /\ \A j \in 1..(k - 1) : ctype[j] # "/"
    IN  SubSeq(ctype, slash + 1, Len(ctype))

\* key is uploads/<digits>-<six characters>.<extension>, the digits reading seconds
KeyHasForm(key, seconds, extension) ==
    \E d \in 1..Len(key) :
        /\ Len(key) = 8 + d + 1 + 6 + 1 + Len(extension)
        /\ SubSeq(key, 1, 8) = <<"u","p","l","o","a","d","s","/">>
        /\ \A k \in 1..d : IsDigit(key[8 + k])
        /\ StrToInt(SubSeq(key, 9, 8 + d)) = seconds
        /\ key[8 + d + 1] = "-"
        /\ key[8 + d + 8] = "."
        /\ SubSeq(key, 8 + d + 9, Len(key)) = extension

\* the URLs the signing call can return
ReturnedUrls == {out.url : out \in {o \in BackendOutcomes : o.ok}}

\* C4: a request whose contentType is one of the four allowed types and whose
\* signing call succeeds gets 200 with body {url, key}: key is
\* uploads/<unix-timestamp>-<6 characters>.<extension>, the extension being the
\* text after "/" in contentType, and url is what the signing call returned.
C4_AllowedTypeIs200WithKeyAndUrl ==
    (Returned /\ exc = NoException) =>
        \A req \in {Request} :
            RequestsAllowedType(req)
                => /\ response.statusCode = 200
                   /\ \A dec \in {Decoded(response)} :
                         /\ dec.ok
                         /\ dec.v.t = "dict"
                         /\ KeysOf(dec.v) = {<<"u","r","l">>, <<"k","e","y">>}
                         /\ \A key \in {ValueOf(dec.v, <<"k","e","y">>)},
                               url \in {ValueOf(dec.v, <<"u","r","l">>)},
                               extension \in {ExtAfterSlash(RequestedType(req).s)} :
                               /\ key.t = "str"
                               /\ \E seconds \in StartTime..now :
                                     KeyHasForm(key.s, seconds, extension)
                               /\ extension \in {<<"j","p","e","g">>, <<"p","n","g">>, <<"g","i","f">>, <<"w","e","b","p">>}
                               /\ url.t = "str"
                               /\ url.s = presigned_url
                               /\ url.s \in ReturnedUrls

\* a request for image/webp has been answered 200
C4_Witness ==
    /\ Returned
    /\ response.statusCode = 200
    /\ \E req \in {Request} :
          /\ RequestsAllowedType(req)
          /\ RequestedType(req).s = <<"i","m","a","g","e","/","w","e","b","p">>

(***************************************************************************)
(* C5                                                                      *)
(***************************************************************************)
\* the signing call of this invocation raised
SigningFailed == sign_calls # <<>> /\ exc # NoException

\* C5: when the signing call fails, the response is 500 with body exactly
\* {error: "Internal server error. Failed to generate upload URL."}; the text of
\* the failure is printed to the log and is no part of the response.
C5_SigningFailureIsGeneric500 ==
    (Returned /\ SigningFailed)
        => /\ response.statusCode = 500
           /\ response.body = <<"{","\"","e","r","r","o","r","\"",":"," ","\"","I","n","t","e","r","n","a","l"," ","s","e","r","v","e","r"," ","e","r","r","o","r","."," ","F","a","i","l","e","d"," ","t","o"," ","g","e","n","e","r","a","t","e"," ","u","p","l","o","a","d"," ","U","R","L",".","\"","}">>
           /\ Is500Generic(response)
           /\ ~Contains(response.body, exc.msg)
           /\ \E k \in 1..Len(log) : Contains(log[k], exc.msg)

\* a signing call has failed for want of credentials and the invocation returned
C5_Witness ==
    /\ Returned
    /\ SigningFailed
    /\ exc.cls = "NoCredentialsError"
    /\ response.statusCode = 500

(***************************************************************************)
(* C6                                                                      *)
(***************************************************************************)
HasCorsHeaders(resp) ==
    /\ "Access-Control-Allow-Origin" \in DOMAIN resp.headers
    /\ resp.headers["Access-Control-Allow-Origin"] = "*"
    /\ "Access-Control-Allow-Headers" \in DOMAIN resp.headers
    /\ resp.headers["Access-Control-Allow-Headers"] = "Content-Type"

\* C6: every response, on the 200 path, both 400 paths and the 500 path, carries
\* Access-Control-Allow-Origin: * and Access-Control-Allow-Headers: Content-Type.
C6_EveryResponseHasCorsHeaders ==
    /\ response.statusCode # 0 => HasCorsHeaders(response)
    /\ Returned => response.statusCode \in {200, 400, 500}

\* a 500 response has been returned
C6_Witness ==
    /\ Returned
    /\ response.statusCode = 500
    /\ log # <<>>

(***************************************************************************)
(* C7                                                                      *)
(***************************************************************************)
\* C7: every invocation, whatever the event and the backend's outcome, ends by
\* returning one response with statusCode 200, 400 or 500, which is not replaced
\* afterwards; no exception leaves lambda_handler.
C7_EveryInvocationReturnsOnce ==
    /\ [](pc # "fault")
    /\ [](pc = "parse" => <>(Returned /\ response.statusCode \in {200, 400, 500}))
    /\ [][response.statusCode # 0 => (response' = response \/ pc' = "parse")]_vars

\* a body that is JSON but no object has been answered 500
C7_Witness ==
    /\ Returned
    /\ exc.cls = "AttributeError"
    /\ response.statusCode = 500
    /\ \E req \in {Request} : BodyParses(req) /\ req.v.t = "list"

(***************************************************************************)
(* C8                                                                      *)
(***************************************************************************)
\* results i and j were issued in the same second for the same contentType
SameSecondSameType(i, j) ==
    /\ issued[i].timestamp = issued[j].timestamp
    /\ issued[i].content_type = issued[j].content_type

C9_ReturnedKeyIsSignedKey ==
    (Returned /\ response.statusCode = 200)
        => /\ Len(sign_calls) = 1
           /\ \A dec \in {Decoded(response)} :
                 /\ dec.ok
                 /\ HasKey(dec.v, <<"k","e","y">>)
                 /\ ValueOf(dec.v, <<"k","e","y">>) = JStr(sign_calls[1].Key)
           /\ sign_calls[1].ClientMethod = "put_object"
           /\ sign_calls[1].HttpMethod = "PUT"
           /\ sign_calls[1].Bucket = environ.BUCKET_NAME
           /\ \A req \in {Request} :
                 /\ ContentTypeIsStr(req)
                 /\ sign_calls[1].ContentType = RequestedType(req).s
           /\ IF environ.has_expire
              THEN IntToStr(sign_calls[1].ExpiresIn) = environ.SIGNED_URL_EXPIRE
              ELSE sign_calls[1].ExpiresIn = 120

\* a 200 response in a process whose SIGNED_URL_EXPIRE is set
C9_Witness ==
    /\ Returned
    /\ response.statusCode = 200
    /\ environ.has_expire
    /\ Len(sign_calls) = 1

(***************************************************************************)
(* C10                                                                     *)
(***************************************************************************)
\* C10: an invocation calls the backend at most once and only after both
\* validation steps passed; an invocation that ends with 400 has called no
\* backend and derived no key; a failed signing call is not repeated.
C10_SignsOnceAfterValidation ==
    /\ Len(sign_calls) <= 1
    /\ (sign_calls # <<>> \/ object_key # <<>>)
          => \A req \in {Request} :
                 /\ RequestsAllowedType(req)
                 /\ HasImagePrefix(RequestedType(req).s)
    /\ (Returned /\ response.statusCode = 400)
          => /\ sign_calls = <<>>
             /\ object_key = <<>>
             /\ timestamp = 0
             /\ random_suffix = <<>>
    /\ (Returned /\ SigningFailed) => Len(sign_calls) = 1

\* a failed signing call has been answered 500 after one call
C10_Witness ==
    /\ Returned
    /\ SigningFailed
    /\ Len(sign_calls) = 1
    /\ response.statusCode = 500
=============================================================================
